---- MODULE Spec2Model ----
(***************************************************************************)
(* VaultN8N: the encrypted secret store.                                   *)
(*                                                                         *)
(*   app/crypto.py   derive_key, encrypt_data, decrypt_data                *)
(*   app/db.py       the SQLite table `secrets` and its operations         *)
(*   app/api/routes  the /api/v1/secrets handlers                          *)
(*   app/startup.py  check_encryption_key                                  *)
(*                                                                         *)
(* A Python str is a sequence of Unicode code points, a bytes object a     *)
(* sequence of numbers 0..255.                                             *)
(***************************************************************************)
EXTENDS Integers, Sequences, FiniteSets, TLC

(***************************************************************************)
(* Generic helpers.                                                        *)
(***************************************************************************)
Rep(n, b) == [i \in 1..n |-> b]

Range(s) == {s[i] : i \in 1..Len(s)}

RECURSIVE XorBits(_, _, _)
XorBits(a, b, n) ==
  IF n = 0 THEN 0
  ELSE ((a + b) % 2) + 2 * XorBits(a \div 2, b \div 2, n - 1)

\* a ^ b on two bytes
Xor(a, b) == XorBits(a, b, 8)

(***************************************************************************)
(* base64.urlsafe_b64encode / urlsafe_b64decode (crypto.py line 3).        *)
(***************************************************************************)
\* the character of a 6-bit value in the URL-safe alphabet A-Z a-z 0-9 - _
B64Char(v) ==
  IF v < 26 THEN 65 + v
  ELSE IF v < 52 THEN 97 + (v - 26)
  ELSE IF v < 62 THEN 48 + (v - 52)
  ELSE IF v = 62 THEN 45
  ELSE 95

\* the 6-bit value of a character, -1 for a character outside the alphabet.
\* urlsafe_b64decode translates - and _ to + and / and then decodes with the
\* standard table, so + and / are accepted as well.
B64Val(c) ==
  IF c >= 65 /\ c <= 90 THEN c - 65
  ELSE IF c >= 97 /\ c <= 122 THEN c - 97 + 26
  ELSE IF c >= 48 /\ c <= 57 THEN c - 48 + 52
  ELSE IF c = 45 \/ c = 43 THEN 62
  ELSE IF c = 95 \/ c = 47 THEN 63
  ELSE -1

RECURSIVE urlsafe_b64encode(_)
urlsafe_b64encode(b) ==
  IF Len(b) = 0 THEN <<>>
  ELSE IF Len(b) = 1 THEN
    <<B64Char(b[1] \div 4), B64Char((b[1] % 4) * 16), 61, 61>>
  ELSE IF Len(b) = 2 THEN
    <<B64Char(b[1] \div 4), B64Char((b[1] % 4) * 16 + (b[2] \div 16)),
      B64Char((b[2] % 16) * 4), 61>>
  ELSE
    <<B64Char(b[1] \div 4), B64Char((b[1] % 4) * 16 + (b[2] \div 16)),
      B64Char((b[2] % 16) * 4 + (b[3] \div 64)), B64Char(b[3] % 64)>>
    \o urlsafe_b64encode(SubSeq(b, 4, Len(b)))

\* binascii.a2b_base64 in its default (non-strict) mode: characters outside
\* the alphabet are skipped, a complete pad sequence ends the input, left-over
\* bits of the last character are dropped, and an incomplete quad is an error.
RECURSIVE a2b_base64(_, _, _, _, _, _)
a2b_base64(s, i, quad_pos, leftchar, pads, out) ==
  IF i > Len(s) THEN
    IF quad_pos # 0 THEN [ok |-> FALSE, bytes |-> <<>>]
    ELSE [ok |-> TRUE, bytes |-> out]
  ELSE IF s[i] = 61 THEN
    IF quad_pos >= 2 /\ quad_pos + pads + 1 >= 4
    THEN [ok |-> TRUE, bytes |-> out]
    ELSE a2b_base64(s, i + 1, quad_pos, leftchar,
                    IF quad_pos >= 2 THEN pads + 1 ELSE pads, out)
  ELSE IF B64Val(s[i]) < 0 THEN
    a2b_base64(s, i + 1, quad_pos, leftchar, pads, out)
  ELSE
    LET v == B64Val(s[i]) IN
    IF quad_pos = 0 THEN a2b_base64(s, i + 1, 1, v, 0, out)
    ELSE IF quad_pos = 1 THEN
      a2b_base64(s, i + 1, 2, v % 16, 0, Append(out, leftchar * 4 + (v \div 16)))
    ELSE IF quad_pos = 2 THEN
      a2b_base64(s, i + 1, 3, v % 4, 0, Append(out, leftchar * 16 + (v \div 4)))
    ELSE
      a2b_base64(s, i + 1, 0, 0, 0, Append(out, leftchar * 64 + v))

\* urlsafe_b64decode of a str: a non-ASCII character raises ValueError before
\* any decoding; [ok |-> FALSE] stands for any exception raised.
urlsafe_b64decode(s) ==
  IF \E i \in 1..Len(s) : s[i] > 127 THEN [ok |-> FALSE, bytes |-> <<>>]
  ELSE a2b_base64(s, 1, 0, 0, 0, <<>>)

(***************************************************************************)
(* str.encode('utf-8') and bytes.decode('utf-8').                          *)
(***************************************************************************)
Utf8Char(c) ==
  IF c < 128 THEN <<c>>
  ELSE IF c < 2048 THEN <<192 + (c \div 64), 128 + (c % 64)>>
  ELSE IF c < 65536 THEN
    <<224 + (c \div 4096), 128 + ((c \div 64) % 64), 128 + (c % 64)>>
  ELSE <<240 + (c \div 262144), 128 + ((c \div 4096) % 64),
         128 + ((c \div 64) % 64), 128 + (c % 64)>>

RECURSIVE Utf8Encode(_)
Utf8Encode(x) ==
  IF Len(x) = 0 THEN <<>> ELSE Utf8Char(x[1]) \o Utf8Encode(Tail(x))

IsCont(b, i) == i <= Len(b) /\ b[i] >= 128 /\ b[i] <= 191

\* the strict decoder: no overlong forms, no surrogates, nothing above U+10FFFF
RECURSIVE Utf8Decode(_, _, _)
Utf8Decode(b, i, out) ==
  IF i > Len(b) THEN [ok |-> TRUE, text |-> out]
  ELSE IF b[i] < 128 THEN Utf8Decode(b, i + 1, Append(out, b[i]))
  ELSE IF b[i] >= 194 /\ b[i] <= 223 /\ IsCont(b, i + 1) THEN
    Utf8Decode(b, i + 2, Append(out, (b[i] - 192) * 64 + (b[i + 1] - 128)))
  ELSE IF b[i] >= 224 /\ b[i] <= 239 /\ IsCont(b, i + 1) /\ IsCont(b, i + 2) THEN
    LET c == (b[i] - 224) * 4096 + (b[i + 1] - 128) * 64 + (b[i + 2] - 128) IN
    IF c < 2048 \/ (c >= 55296 /\ c <= 57343) THEN [ok |-> FALSE, text |-> <<>>]
    ELSE Utf8Decode(b, i + 3, Append(out, c))
  ELSE IF b[i] >= 240 /\ b[i] <= 244
          /\ IsCont(b, i + 1) /\ IsCont(b, i + 2) /\ IsCont(b, i + 3) THEN
    LET c == (b[i] - 240) * 262144 + (b[i + 1] - 128) * 4096
             + (b[i + 2] - 128) * 64 + (b[i + 3] - 128) IN
    IF c < 65536 \/ c > 1114111 THEN [ok |-> FALSE, text |-> <<>>]
    ELSE Utf8Decode(b, i + 4, Append(out, c))
  ELSE [ok |-> FALSE, text |-> <<>>]

(***************************************************************************)
(* bytes.fromhex: pairs of hex digits of either case; ASCII whitespace is  *)
(* allowed between pairs; anything else raises ValueError.                 *)
(***************************************************************************)
HexVal(c) ==
  IF c >= 48 /\ c <= 57 THEN c - 48
  ELSE IF c >= 97 /\ c <= 102 THEN c - 97 + 10
  ELSE IF c >= 65 /\ c <= 70 THEN c - 65 + 10
  ELSE -1

RECURSIVE FromHex(_, _, _)
FromHex(h, i, out) ==
  IF i > Len(h) THEN [ok |-> TRUE, bytes |-> out]
  ELSE IF h[i] = 32 THEN FromHex(h, i + 1, out)
  ELSE IF i + 1 <= Len(h) /\ HexVal(h[i]) >= 0 /\ HexVal(h[i + 1]) >= 0 THEN
    FromHex(h, i + 2, Append(out, 16 * HexVal(h[i]) + HexVal(h[i + 1])))
  ELSE [ok |-> FALSE, bytes |-> <<>>]

bytes_fromhex(h) == FromHex(h, 1, <<>>)

(***************************************************************************)
(* app/crypto.py                                                           *)
(***************************************************************************)
AES_KEY_LENGTH == 32

GCM_NONCE_LENGTH == 12

GCM_TAG_LENGTH == 16

SALT_LENGTH == 16

\* b"aes-gcm-key-derivation", the default info of derive_key
KDF_INFO ==
  <<97, 101, 115, 45, 103, 99, 109, 45, 107, 101, 121, 45,
    100, 101, 114, 105, 118, 97, 116, 105, 111, 110>>

\* HKDFExpand(SHA256, length=32, info).derive(master_key + salt).  The hash is
\* taken as ideal: the 32-byte output is identified with the input it was
\* derived from, so two derived keys are equal exactly when the concatenation
\* master_key + salt and the info are equal.
\* mutant: the master key is left out of the key material
derive_key_salt_only(master_key, salt, info) ==
  [len |-> AES_KEY_LENGTH, ikm |-> salt, info |-> info]

derive_key(master_key, salt, info) ==
  [len |-> AES_KEY_LENGTH, ikm |-> master_key \o salt, info |-> info]

\* sum of (2*i*j + 1) * s[j] over the positions j >= from of s
RECURSIVE WSum(_, _, _)
WSum(s, i, from) ==
  IF from > Len(s) THEN 0
  ELSE (2 * i * from + 1) * s[from] + WSum(s, i, from + 1)

\* a number standing for the AES key schedule of a derived key
KeyDigest(key) == WSum(key.ikm \o key.info, 1, 1)

\* AES-GCM is a stream cipher (CTR mode) with a 16-byte tag over the key, the
\* nonce and the ciphertext.  The AES permutation itself is taken as ideal:
\* GcmKeystream is a fixed function of (key, nonce, position) and GcmTag a
\* fixed function of (key, nonce, ciphertext) in which every input byte
\* carries an odd weight, so a change of one byte changes the tag.
GcmKeystream(key, nonce, n) ==
  (KeyDigest(key) + WSum(nonce, n, 1) + 17 * n) % 256

GcmCrypt(key, nonce, data) ==
  [n \in 1..Len(data) |-> Xor(data[n], GcmKeystream(key, nonce, n))]

GcmTag(key, nonce, cipher_text) ==
  LET kd == KeyDigest(key)
      rest == nonce \o <<Len(cipher_text)>> \o cipher_text
  IN [i \in 1..GCM_TAG_LENGTH |->
        (((kd \div (2 ^ (i - 1))) % 256) + WSum(rest, i, 1)) % 256]

\* the "." that joins and splits the four segments
DOT == 46

\* an encrypt_data that writes its nonce from a constant instead of the draw
encrypt_data_fixed_nonce(plain_text, encryption_key_hex, salt, nonce) ==
  LET master_key == bytes_fromhex(encryption_key_hex).bytes
      fixed == Rep(GCM_NONCE_LENGTH, 0)
      derived_key == derive_key(master_key, salt, KDF_INFO)
      cipher_text == GcmCrypt(derived_key, fixed, Utf8Encode(plain_text))
      tag == GcmTag(derived_key, fixed, cipher_text)
  IN urlsafe_b64encode(salt) \o <<DOT>> \o urlsafe_b64encode(fixed) \o <<DOT>>
     \o urlsafe_b64encode(cipher_text) \o <<DOT>> \o urlsafe_b64encode(tag)

\* an encrypt_data that returns the text as it is
encrypt_data_plain(plain_text, encryption_key_hex, salt, nonce) == plain_text

\* mutant: the tag is written before the ciphertext
encrypt_data_swapped(plain_text, encryption_key_hex, salt, nonce) ==
  LET master_key == bytes_fromhex(encryption_key_hex).bytes
      derived_key == derive_key(master_key, salt, KDF_INFO)
      cipher_text == GcmCrypt(derived_key, nonce, Utf8Encode(plain_text))
      tag == GcmTag(derived_key, nonce, cipher_text)
  IN urlsafe_b64encode(salt) \o <<DOT>> \o urlsafe_b64encode(nonce) \o <<DOT>>
     \o urlsafe_b64encode(tag) \o <<DOT>> \o urlsafe_b64encode(cipher_text)

\* encrypt_data, with the two os.urandom draws as parameters
encrypt_data(plain_text, encryption_key_hex, salt, nonce) ==
  LET master_key == bytes_fromhex(encryption_key_hex).bytes
      derived_key == derive_key(master_key, salt, KDF_INFO)
      cipher_text == GcmCrypt(derived_key, nonce, Utf8Encode(plain_text))
      tag == GcmTag(derived_key, nonce, cipher_text)
  IN urlsafe_b64encode(salt) \o <<DOT>> \o urlsafe_b64encode(nonce) \o <<DOT>>
     \o urlsafe_b64encode(cipher_text) \o <<DOT>> \o urlsafe_b64encode(tag)

\* str.split(sep) for a separator of one character
RECURSIVE SplitOn(_, _, _, _, _)
SplitOn(s, sep, i, cur, acc) ==
  IF i > Len(s) THEN Append(acc, cur)
  ELSE IF s[i] = sep THEN SplitOn(s, sep, i + 1, <<>>, Append(acc, cur))
  ELSE SplitOn(s, sep, i + 1, Append(cur, s[i]), acc)

\* encrypted_text.split('.')
Split(s) == SplitOn(s, DOT, 1, <<>>, <<>>)

Ok(text) == [kind |-> "ok", cause |-> "none", text |-> text]

DecryptionError(cause) ==
  [kind |-> "DecryptionError", cause |-> cause, text |-> <<>>]

\* an exception that is not a DecryptionError leaves decrypt_data
Escapes(what) == [kind |-> what, cause |-> "none", text |-> <<>>]

\* modes.GCM(nonce, tag): the nonce must have 8..128 bytes and the tag at least
\* min_tag_length = 16 bytes, else ValueError
GcmAccepts(nonce, tag) ==
  /\ Len(nonce) >= 8
  /\ Len(nonce) <= 128
  /\ Len(tag) >= GCM_TAG_LENGTH

\* mutant: the tag is never verified (finalize is not called)
decrypt_final_nocheck(derived_key, nonce, cipher_text, tag) ==
  LET d == Utf8Decode(GcmCrypt(derived_key, nonce, cipher_text), 1, <<>>)
  IN IF d.ok THEN Ok(d.text) ELSE DecryptionError("unexpected")

\* lines 89-98 of decrypt_data: update + finalize, then decode('utf-8')
decrypt_final(derived_key, nonce, cipher_text, tag) ==
  IF tag # GcmTag(derived_key, nonce, cipher_text)
  THEN DecryptionError("authentication")
  ELSE LET d == Utf8Decode(GcmCrypt(derived_key, nonce, cipher_text), 1, <<>>)
       IN IF d.ok THEN Ok(d.text) ELSE DecryptionError("unexpected")

\* lines 78-100 of decrypt_data, for the four segments parts
decrypt_segments(parts, encryption_key_hex) ==
  LET salt == urlsafe_b64decode(parts[1])
      nonce == urlsafe_b64decode(parts[2])
      cipher_text == urlsafe_b64decode(parts[3])
      tag == urlsafe_b64decode(parts[4])
      master_key == bytes_fromhex(encryption_key_hex)
  IN
  IF ~(salt.ok /\ nonce.ok /\ cipher_text.ok /\ tag.ok)
  THEN DecryptionError("decode")
  ELSE IF ~master_key.ok THEN Escapes("ValueError")
  ELSE IF ~GcmAccepts(nonce.bytes, tag.bytes) THEN Escapes("ValueError")
  \* .decryptor(): the cipher refuses a tag longer than its 16 bytes
  ELSE IF Len(tag.bytes) > GCM_TAG_LENGTH THEN Escapes("InternalError")
  ELSE decrypt_final(derive_key(master_key.bytes, salt.bytes, KDF_INFO),
                     nonce.bytes, cipher_text.bytes, tag.bytes)

\* a decrypt_data that reads the first four segments and ignores the rest
decrypt_data_first_four(encrypted_text, encryption_key_hex) ==
  LET parts == Split(encrypted_text) IN
  IF Len(parts) < 4 THEN DecryptionError("format")
  ELSE decrypt_segments(parts, encryption_key_hex)

decrypt_data(encrypted_text, encryption_key_hex) ==
  LET parts == Split(encrypted_text) IN
  IF Len(parts) # 4 THEN DecryptionError("format")
  ELSE decrypt_segments(parts, encryption_key_hex)

\* os.urandom(n): the draws the model follows
RandBytes == {7, 250}

urandom(n) == {Rep(n, b) : b \in RandBytes}

(***************************************************************************)
(* The inputs of the crypto experiment.                                    *)
(***************************************************************************)
MaxPlainLen == 1

\* "A" (1 byte in UTF-8) and the euro sign (3 bytes)
PlainChars == {65, 8364}

RECURSIVE SeqsUpTo(_, _)
SeqsUpTo(S, n) ==
  IF n = 0 THEN {<<>>}
  ELSE LET shorter == SeqsUpTo(S, n - 1)
       IN shorter \cup {Append(x, c) : x \in shorter, c \in S}

Plaintexts == SeqsUpTo(PlainChars, MaxPlainLen)

\* 64 hex characters: "aa..aa", the same key in upper case "AA..AA", and
\* "aa..ab", a key that differs from the first in its last byte
KeyLower == Rep(64, 97)

KeyUpper == Rep(64, 65)

KeyOther == [i \in 1..64 |-> IF i = 64 THEN 98 ELSE 97]

KeyHexes == {KeyLower, KeyUpper, KeyOther}

\* the characters a tampering writes: "B", "=", "!", "."
TamperChars == {66, 61, 33, DOT}

NoResult == [kind |-> "none", cause |-> "none", text |-> <<>>]

\* '.'.join(parts)
RECURSIVE Join(_)
Join(parts) ==
  IF Len(parts) = 0 THEN <<>>
  ELSE IF Len(parts) = 1 THEN parts[1]
  ELSE parts[1] \o <<DOT>> \o Join(Tail(parts))

\* the segments put in the place of a segment of a blob: "" (no bytes),
\* "AAAA" (three bytes), "A" (no base64 string), and the segment itself with
\* "!" or with a line feed after it (characters outside the alphabet)
Substitutes(seg) ==
  {<<>>, <<65, 65, 65, 65>>, <<65>>, seg \o <<33>>, seg \o <<10>>}

\* the strings made from a blob that decrypt_data is given in place of it:
\* a segment dropped, a segment added, one segment substituted
Forgeries(b) ==
  LET parts == Split(b) IN
  {Join(SubSeq(parts, 1, 3)), Join(parts \o <<<<65, 65, 65, 65>>>>), <<>>}
    \cup UNION {{Join([parts EXCEPT ![n] = sub]) : sub \in Substitutes(parts[n])}
                 : n \in 1..4}

(***************************************************************************)
(* app/db.py: the table `secrets`, its index `secrets_fts`, the triggers.  *)
(*                                                                         *)
(* A row is [id, key, value, created_at, updated_at]; key is UNIQUE with   *)
(* COLLATE BINARY, so two keys are the same exactly when they are equal as *)
(* strings.  An index entry is [rowid, key].                               *)
(***************************************************************************)
Row(id, key, value, t) ==
  [id |-> id, key |-> key, value |-> value, created_at |-> t, updated_at |-> t]

\* trigger secrets_ai
secrets_ai(f, new) == f \cup {[rowid |-> new.id, key |-> new.key]}

\* trigger secrets_ad
secrets_ad(f, old) == f \ {[rowid |-> old.id, key |-> old.key]}

\* trigger secrets_au
secrets_au(f, old, new) == secrets_ai(secrets_ad(f, old), new)

\* the rows of a cursor as a list of (key, value) tuples.  SQL fixes no order
\* for a SELECT without ORDER BY; the model lists the rows by id.
RECURSIVE FetchAll(_)
FetchAll(rs) ==
  IF rs = {} THEN <<>>
  ELSE LET r == CHOOSE x \in rs : \A y \in rs : x.id <= y.id
       IN <<<<r.key, r.value>>>> \o FetchAll(rs \ {r})

\* INSERT OR REPLACE: the row of the key is deleted and a new one inserted
UpsertRowsReplace(rs, sq, t, key, value) ==
  {r \in rs : r.key # key} \cup {Row(sq + 1, key, value, t)}

\* mutant: the update branch inserts a second row instead
UpsertRowsAlwaysInsert(rs, sq, t, key, value) ==
  rs \cup {Row(sq + 1, key, value, t)}

\* INSERT INTO secrets (key, value) VALUES (?, ?) ON CONFLICT(key) DO UPDATE
\* SET value = excluded.value, updated_at = CURRENT_TIMESTAMP, followed by the
\* trigger set_timestamp on the update branch.  sq is sqlite_sequence.
UpsertRows(rs, sq, t, key, value) ==
  IF \E r \in rs : r.key = key
  THEN {IF r.key = key THEN [r EXCEPT !.value = value, !.updated_at = t] ELSE r
        : r \in rs}
  ELSE rs \cup {Row(sq + 1, key, value, t)}

\* the index after the triggers of an upsert have run
UpsertFts(f, rs, sq, key) ==
  IF \E r \in rs : r.key = key
  THEN LET old == CHOOSE r \in rs : r.key = key IN secrets_au(f, old, old)
  ELSE secrets_ai(f, [id |-> sq + 1, key |-> key])

\* mutant: one result per key of the list, so a key given twice is found twice
get_secrets_by_keys_per_key(rs, keys) ==
  LET RECURSIVE each(_)
      each(i) == IF i > Len(keys) THEN <<>>
                 ELSE FetchAll({r \in rs : r.key = keys[i]}) \o each(i + 1)
  IN each(1)

\* SELECT key, value FROM secrets WHERE key IN (?, ..)
get_secrets_by_keys(rs, keys) ==
  IF Len(keys) = 0 THEN <<>>
  ELSE FetchAll({r \in rs : r.key \in Range(keys)})

STAR == 42

PERCENT == 37

UNDERSCORE == 95

\* pattern.replace('*', '%')
like_pattern(pattern) ==
  [i \in 1..Len(pattern) |-> IF pattern[i] = STAR THEN PERCENT ELSE pattern[i]]

\* SQLite's LIKE with PRAGMA case_sensitive_like = ON and no ESCAPE clause:
\* % matches any run of characters, _ any one character, every other
\* character itself.  Like(p, i, s, j): p from position i matches s from j.
RECURSIVE Like(_, _, _, _)
Like(p, i, s, j) ==
  IF i > Len(p) THEN j > Len(s)
  ELSE IF p[i] = PERCENT THEN
    \E k \in j..(Len(s) + 1) : Like(p, i + 1, s, k)
  ELSE IF j > Len(s) THEN FALSE
  ELSE IF p[i] = UNDERSCORE THEN Like(p, i + 1, s, j + 1)
  ELSE p[i] = s[j] /\ Like(p, i + 1, s, j + 1)

\* SELECT key, value FROM secrets WHERE key LIKE ?
find_secrets_by_like_pattern(rs, pattern) ==
  FetchAll({r \in rs : Like(like_pattern(pattern), 1, r.key, 1)})

\* mutant: the count is the length of the list, not the rows removed
DeleteCountRequested(rs, keys) == Len(keys)

\* cursor.rowcount of DELETE FROM secrets WHERE key IN (?, ..)
DeleteCount(rs, keys) ==
  IF Len(keys) = 0 THEN 0
  ELSE Cardinality({r \in rs : r.key \in Range(keys)})

DeleteRows(rs, keys) == {r \in rs : r.key \notin Range(keys)}

RECURSIVE DeleteFts(_, _)
DeleteFts(f, gone) ==
  IF gone = {} THEN f
  ELSE LET r == CHOOSE x \in gone : TRUE
       IN DeleteFts(secrets_ad(f, r), gone \ {r})

\* None
None == <<"None">>

\* SELECT value FROM secrets LIMIT 1: the values fetchone may give
get_first_secret_value(rs) ==
  IF rs = {} THEN {None} ELSE {r.value : r \in rs}

(***************************************************************************)
(* The inputs of the store experiment (the calls test_db.py makes).        *)
(***************************************************************************)
MaxSeq == 2

MaxTime == 1

MaxListLen == 2

\* "a", "A", "ab"
DbKeys == {<<97>>, <<65>>, <<97, 98>>}

\* "v1", "v2"
DbValues == {<<118, 49>>, <<118, 50>>}

\* "a*", "A*", "*b", "a_", "a%", "ab"
DbPatterns ==
  {<<97, STAR>>, <<65, STAR>>, <<STAR, 98>>, <<97, UNDERSCORE>>,
   <<97, PERCENT>>, <<97, 98>>}

\* the lists of keys given to get_secrets_by_keys and delete_secrets_by_keys:
\* over "a" and "ab", so that "A" is a row no list names
KeyLists == SeqsUpTo({<<97>>, <<97, 98>>}, MaxListLen)

(***************************************************************************)
(* app/api/routes.py and app/startup.py.                                   *)
(***************************************************************************)
COMMA == 44

\* the characters str.strip() removes
IsSpace(c) == c \in {9, 10, 11, 12, 13, 28, 29, 30, 31, 32, 133, 160}

RECURSIVE Strip(_)
Strip(k) ==
  IF Len(k) = 0 THEN k
  ELSE IF IsSpace(k[1]) THEN Strip(Tail(k))
  ELSE IF IsSpace(k[Len(k)]) THEN Strip(SubSeq(k, 1, Len(k) - 1))
  ELSE k

\* key_list = [k.strip() for k in keys.split(',')]
key_list(keys) ==
  LET parts == SplitOn(keys, COMMA, 1, <<>>, <<>>)
  IN [i \in 1..Len(parts) |-> Strip(parts[i])]

HasStar(k) == STAR \in Range(k)

NoStar(k) == STAR \notin Range(k)

exact_keys(keys) == SelectSeq(key_list(keys), NoStar)

like_patterns(keys) == SelectSeq(key_list(keys), HasStar)

\* found_secrets.extend(..) for every pattern, from pattern i on
RECURSIVE ExtendEach(_, _, _, _)
ExtendEach(found, rs, patterns, i) ==
  IF i > Len(patterns) THEN found
  ELSE ExtendEach(found \o find_secrets_by_like_pattern(rs, patterns[i]),
                  rs, patterns, i + 1)

\* for s in secrets_from_db: if s not in found_secrets: found_secrets.append(s)
RECURSIVE AppendNew(_, _, _)
AppendNew(found, res, j) ==
  IF j > Len(res) THEN found
  ELSE AppendNew(IF res[j] \in Range(found) THEN found ELSE Append(found, res[j]),
                 res, j + 1)

RECURSIVE AppendNewEach(_, _, _, _)
AppendNewEach(found, rs, patterns, i) ==
  IF i > Len(patterns) THEN found
  ELSE AppendNewEach(AppendNew(found, find_secrets_by_like_pattern(rs, patterns[i]), 1),
                     rs, patterns, i + 1)

\* lines 69-81 of get_secrets: the rows found, nothing removed from the list
found_for_get(rs, keys) ==
  ExtendEach(IF Len(exact_keys(keys)) > 0
             THEN get_secrets_by_keys(rs, exact_keys(keys)) ELSE <<>>,
             rs, like_patterns(keys), 1)

\* the list delete_secrets would build if it extended as get_secrets does
found_for_delete_extend(rs, keys) == found_for_get(rs, keys)

\* lines 106-122 of delete_secrets: the rows found, pattern results added
\* only when the (key, value) tuple is not in the list yet
found_for_delete(rs, keys) ==
  AppendNewEach(IF Len(exact_keys(keys)) > 0
                THEN get_secrets_by_keys(rs, exact_keys(keys)) ELSE <<>>,
                rs, like_patterns(keys), 1)

Response(status, body) == [status |-> status, body |-> body]

\* [models.Secret(key=k, value=crypto.decrypt_data(v, KEY)) for k, v in found]:
\* the list, or 500 when a decrypt_data call raises
decrypted_secrets(found, encryption_key) ==
  LET d == [i \in 1..Len(found) |-> decrypt_data(found[i][2], encryption_key)] IN
  IF \A i \in 1..Len(found) : d[i].kind = "ok"
  THEN Response(200, [i \in 1..Len(found) |-> <<found[i][1], d[i].text>>])
  ELSE Response(500, <<>>)

\* keys_to_delete = [k for k, v in found_secrets]
keys_to_delete(found) == [i \in 1..Len(found) |-> found[i][1]]

\* a check that trusts any stored value
check_encryption_key_trusting(first_value, encryption_key) == "passed"

\* check_encryption_key for the value get_first_secret_value gave: "passed"
\* when it returns, "exit" for sys.exit(1), "raised" when decrypt_data raises
\* something that is not a DecryptionError
check_encryption_key(first_value, encryption_key) ==
  IF first_value = None THEN "passed"
  ELSE LET d == decrypt_data(first_value, encryption_key) IN
       IF d.kind = "ok" THEN "passed"
       ELSE IF d.kind = "DecryptionError" THEN "exit"
       ELSE "raised"

(***************************************************************************)
(* app/config.py                                                           *)
(***************************************************************************)
KEY_HEX_LENGTH == 64

\* Settings.validate_encryption_key: "ok" when the value is returned, else the
\* ValueError it raises
validate_encryption_key(value) ==
  IF Len(value) # KEY_HEX_LENGTH THEN "length"
  ELSE IF ~bytes_fromhex(value).ok THEN "format"
  ELSE "ok"

\* the pairs of characters put in the place of a pair of hex digits of a key:
\* "  ", " a", "a ", "g0", "AB"
PairSubs == {<<32, 32>>, <<32, 97>>, <<97, 32>>, <<103, 48>>, <<65, 66>>}

\* the values ENCRYPTION_KEY has in the environment: the keys of KeyHexes,
\* "aa..aa" with one pair of digits replaced, with a digit less, with a digit
\* more, and the empty string
EnvKeys ==
  KeyHexes
    \cup {[i \in 1..KEY_HEX_LENGTH |->
             IF i = 2 * n - 1 THEN sub[1] ELSE IF i = 2 * n THEN sub[2] ELSE 97]
          : n \in 1..(KEY_HEX_LENGTH \div 2), sub \in PairSubs}
    \cup {Rep(KEY_HEX_LENGTH - 1, 97), Rep(KEY_HEX_LENGTH + 1, 97), <<>>}

(***************************************************************************)
(* app/auth.py: the dependency of every route of the router.               *)
(***************************************************************************)
SPACE == 32

\* the request has no Authorization header
NoHeader == <<"NoHeader">>

\* the position of the first space of a header, Len + 1 if it has none
RECURSIVE FirstSpace(_, _)
FirstSpace(h, i) ==
  IF i > Len(h) THEN i
  ELSE IF h[i] = SPACE THEN i
  ELSE FirstSpace(h, i + 1)

\* scheme, _, param = authorization.partition(" ")
Scheme(h) == SubSeq(h, 1, FirstSpace(h, 1) - 1)

Credentials(h) == SubSeq(h, FirstSpace(h, 1) + 1, Len(h))

\* str.lower on the letters A-Z
Lower(str) ==
  [i \in 1..Len(str) |-> IF str[i] >= 65 /\ str[i] <= 90 THEN str[i] + 32 ELSE str[i]]

\* "bearer"
BEARER == <<98, 101, 97, 114, 101, 114>>

IsAscii(str) == \A i \in 1..Len(str) : str[i] < 128

\* a dependency that lets every request through
verify_token_open(authorization, auth_token) == "pass"

\* security_scheme (HTTPBearer) and verify_token: "401" for a missing header, a
\* header without scheme or credentials, or a scheme other than bearer;
\* secrets.compare_digest raises TypeError for a str with non-ASCII
\* characters, which the server answers with 500; "401" for another token
verify_token(authorization, auth_token) ==
  IF authorization = NoHeader THEN "401"
  ELSE IF Len(Scheme(authorization)) = 0 \/ Len(Credentials(authorization)) = 0
  THEN "401"
  ELSE IF Lower(Scheme(authorization)) # BEARER THEN "401"
  ELSE IF ~IsAscii(Credentials(authorization)) \/ ~IsAscii(auth_token) THEN "500"
  ELSE IF Credentials(authorization) # auth_token THEN "401"
  ELSE "pass"

(***************************************************************************)
(* The inputs of the application (the requests test_api.py makes).         *)
(***************************************************************************)
\* "a", "ab" and "a,a"
AppKeys == {<<97>>, <<97, 98>>, <<97, COMMA, 97>>}

\* "A" and the euro sign
AppValues == {<<65>>, <<8364>>}

\* the os.urandom draws (salt, nonce) the requests of the experiment get
AppDraws == {<<Rep(SALT_LENGTH, b), Rep(GCM_NONCE_LENGTH, b)>> : b \in RandBytes}

\* the bodies of POST /secrets/bulk: [], [a: "A", ab: euro], [a: "A", a: euro]
BulkBodies ==
  {<<>>,
   <<<<<<97>>, <<65>>>>, <<<<97, 98>>, <<8364>>>>>>,
   <<<<<<97>>, <<65>>>>, <<<<97>>, <<8364>>>>>>}

\* the query strings "a,a", "a,a*", "a*,*b", " ab ,zz"
Queries ==
  {<<97, COMMA, 97>>, <<97, COMMA, 97, STAR>>,
   <<97, STAR, COMMA, STAR, 98>>, <<32, 97, 98, 32, COMMA, 122, 122>>}

\* AUTH_TOKEN of the settings: "t"
AUTH_TOKEN == <<116>>

\* the Authorization headers of the requests: none, "Bearer t", "Bearer x",
\* "Bearer T", "Token t", "Bearer", "Bearer " and a token with a letter
\* outside ASCII
Headers ==
  {NoHeader,
   <<66, 101, 97, 114, 101, 114, SPACE, 116>>,
   <<66, 101, 97, 114, 101, 114, SPACE, 120>>,
   <<66, 101, 97, 114, 101, 114, SPACE, 84>>,
   <<84, 111, 107, 101, 110, SPACE, 116>>,
   <<66, 101, 97, 114, 101, 114>>,
   <<66, 101, 97, 114, 101, 114, SPACE>>,
   <<66, 101, 97, 114, 101, 114, SPACE, 246>>}

VARIABLES
  cpc,        \* position of the crypto experiment
  plain,      \* the plaintext given to encrypt_data
  encKey,     \* the key given to encrypt_data
  origBlob,   \* what encrypt_data returned
  blob,       \* the string given to decrypt_data
  tseg,       \* the segment (3 or 4) a tampering changed, 0 for none
  decKey,     \* the key given to decrypt_data
  result,     \* what decrypt_data returned
  rows,       \* the table secrets
  fts,        \* the index secrets_fts
  seq,        \* sqlite_sequence of secrets (AUTOINCREMENT)
  now,        \* CURRENT_TIMESTAMP
  recent,     \* history of the store experiment: per key, its last upsert
  pre,        \* history: the table before the last call
  last,       \* history: the last call and what it returned
  phase,      \* the process: "down", "serving", "exited", "failed"
  handler,    \* the local variables of a delete_secrets run in progress
  settings,   \* ENCRYPTION_KEY of the running process
  conns,      \* the sqlite3 connections of concurrent callers of db.py
  lock        \* the connection holding the write lock of the file, 0 if none

cryptoVars == <<cpc, plain, encKey, origBlob, blob, tseg, decKey, result>>

dbVars == <<rows, fts, seq, now, recent, pre, last>>

appVars == <<phase, settings, handler>>

txVars == <<conns, lock>>

vars == <<cryptoVars, dbVars, appVars, txVars>>

\* no delete_secrets run in progress
NoFrame ==
  [pc |-> "none", keys |-> <<>>, found_secrets |-> <<>>, pattern |-> 0,
   removed |-> {}, ret |-> <<>>]

\* no process
AppIdle ==
  /\ phase = "down"
  /\ settings = <<>>
  /\ handler = NoFrame

\* the variables of the crypto experiment while another experiment runs
CryptoIdle ==
  /\ cpc = "idle"
  /\ plain = <<>>
  /\ encKey = <<>>
  /\ origBlob = <<>>
  /\ blob = <<>>
  /\ tseg = 0
  /\ decKey = <<>>
  /\ result = NoResult

Call(op, key, value, keys, pattern, ret) ==
  [op |-> op, key |-> key, value |-> value, keys |-> keys,
   pattern |-> pattern, ret |-> ret]

\* no call is running and none has returned since the last Return
Idle == Call("idle", <<>>, <<>>, <<>>, <<>>, None)

\* the callers that may hold a connection at the same time
Conns == {1, 2}

\* a connection that is not open
Closed ==
  [pc |-> "closed", call |-> Idle, wrows |-> {}, wfts |-> {}, wseq |-> 0]

\* the database file right after init_db created it, no connection open
DbEmpty ==
  /\ conns = [c \in Conns |-> Closed]
  /\ lock = 0
  /\ rows = {}
  /\ fts = {}
  /\ seq = 0
  /\ now = 0
  /\ recent = <<>>
  /\ pre = {}
  /\ last = Idle

CryptoInit ==
  /\ cpc = "start"
  /\ plain \in Plaintexts
  /\ encKey \in KeyHexes
  /\ origBlob = <<>>
  /\ blob = <<>>
  /\ tseg = 0
  /\ decKey = encKey
  /\ result = NoResult
  /\ DbEmpty
  /\ AppIdle

Encrypt ==
  /\ cpc = "start"
  /\ \E salt \in urandom(SALT_LENGTH), nonce \in urandom(GCM_NONCE_LENGTH) :
       /\ origBlob' = encrypt_data(plain, encKey, salt, nonce)
       /\ blob' = origBlob'
  /\ cpc' = "encrypted"
  /\ UNCHANGED <<plain, encKey, tseg, decKey, result, dbVars, appVars, txVars>>

\* the first position of segment n of the blob, and its length
SegStart(b, n) ==
  LET parts == Split(b)
      RECURSIVE before(_)
      before(k) == IF k = 0 THEN 0 ELSE Len(parts[k]) + 1 + before(k - 1)
  IN before(n - 1) + 1

\* one character of the ciphertext segment or of the tag segment is replaced
Tamper ==
  /\ cpc = "encrypted"
  /\ \E seg \in {3, 4} :
       \E pos \in 1..Len(Split(blob)[seg]), ch \in TamperChars :
         LET at == SegStart(blob, seg) + pos - 1 IN
         /\ blob[at] # ch
         /\ blob' = [blob EXCEPT ![at] = ch]
         /\ tseg' = seg
  /\ cpc' = "tampered"
  /\ UNCHANGED <<plain, encKey, origBlob, decKey, result, dbVars, appVars, txVars>>

\* the blob is replaced by a string made from its segments
Forge ==
  /\ cpc = "encrypted"
  /\ blob' \in Forgeries(blob)
  /\ cpc' = "forged"
  /\ UNCHANGED <<plain, encKey, origBlob, tseg, decKey, result, dbVars, appVars, txVars>>

\* decrypt_data on the blob, or ("answered") on the string forged from it
Decrypt ==
  /\ cpc \in {"encrypted", "tampered", "forged"}
  /\ \E k \in KeyHexes :
       /\ decKey' = k
       /\ result' = decrypt_data(blob, k)
  /\ cpc' = IF cpc = "forged" THEN "answered" ELSE "decrypted"
  /\ UNCHANGED <<plain, encKey, origBlob, blob, tseg, dbVars, appVars, txVars>>

\* check_encryption_key when the value sampled from the table is the blob, or
\* the string forged from it
CheckKey ==
  /\ cpc \in {"encrypted", "forged"}
  /\ \E k \in KeyHexes :
       /\ decKey' = k
       /\ last' = Call("check_encryption_key", k, blob, <<>>, <<>>,
                       check_encryption_key(blob, k))
  /\ cpc' = "checked"
  /\ UNCHANGED <<plain, encKey, origBlob, blob, tseg, result, appVars, txVars>>
  /\ UNCHANGED <<rows, fts, seq, now, recent, pre>>

\* a second call of encrypt_data with the same text and the same key; the
\* draws of os.urandom are recorded next to the blob it returns
EncryptAgain ==
  /\ cpc = "encrypted"
  /\ \E salt \in urandom(SALT_LENGTH), nonce \in urandom(GCM_NONCE_LENGTH) :
       /\ blob' = encrypt_data(plain, encKey, salt, nonce)
       /\ last' = Call("encrypt_data", encKey, plain, <<salt, nonce>>, <<>>, blob')
  /\ cpc' = "reencrypted"
  /\ UNCHANGED <<plain, encKey, origBlob, tseg, decKey, result, appVars, txVars>>
  /\ UNCHANGED <<rows, fts, seq, now, recent, pre>>

CryptoNext == Encrypt \/ EncryptAgain \/ Tamper \/ Forge \/ Decrypt \/ CheckKey

SpecCrypto == CryptoInit /\ [][CryptoNext]_vars

(***************************************************************************)
(* The store experiment: the operations of app/db.py called one at a time. *)
(***************************************************************************)
DbInit == CryptoIdle /\ DbEmpty /\ AppIdle

Recent(key, value) ==
  [k \in (DOMAIN recent) \cup {key} |-> IF k = key THEN value ELSE recent[k]]

\* add_or_update_secret(db_path, key, value)
add_or_update_secret(key, value) ==
  /\ seq < MaxSeq
  /\ rows' = UpsertRows(rows, seq, now, key, value)
  /\ fts' = UpsertFts(fts, rows, seq, key)
  /\ seq' = seq + 1
  /\ recent' = Recent(key, value)
  /\ pre' = rows
  /\ last' = Call("add_or_update_secret", key, value, <<>>, <<>>, None)
  /\ UNCHANGED now

\* delete_secrets_by_keys(db_path, keys)
delete_secrets_by_keys(keys) ==
  /\ rows' = IF Len(keys) = 0 THEN rows ELSE DeleteRows(rows, keys)
  /\ fts' = IF Len(keys) = 0 THEN fts
            ELSE DeleteFts(fts, rows \ DeleteRows(rows, keys))
  /\ pre' = rows
  /\ last' = Call("delete_secrets_by_keys", <<>>, <<>>, keys, <<>>,
                  DeleteCount(rows, keys))
  /\ UNCHANGED <<seq, now, recent>>

DbUpsert ==
  /\ \E key \in DbKeys, value \in DbValues : add_or_update_secret(key, value)
  /\ UNCHANGED <<cryptoVars, appVars, txVars>>

DbGet ==
  /\ \E keys \in KeyLists :
       last' = Call("get_secrets_by_keys", <<>>, <<>>, keys, <<>>,
                    get_secrets_by_keys(rows, keys))
  /\ pre' = rows
  /\ UNCHANGED <<rows, fts, seq, now, recent, cryptoVars, appVars, txVars>>

DbFind ==
  /\ \E pattern \in DbPatterns :
       last' = Call("find_secrets_by_like_pattern", <<>>, <<>>, <<>>, pattern,
                    find_secrets_by_like_pattern(rows, pattern))
  /\ pre' = rows
  /\ UNCHANGED <<rows, fts, seq, now, recent, cryptoVars, appVars, txVars>>

DbDelete ==
  /\ \E keys \in KeyLists : delete_secrets_by_keys(keys)
  /\ UNCHANGED <<cryptoVars, appVars, txVars>>

DbFirst ==
  /\ \E v \in get_first_secret_value(rows) :
       last' = Call("get_first_secret_value", <<>>, <<>>, <<>>, <<>>, v)
  /\ pre' = rows
  /\ UNCHANGED <<rows, fts, seq, now, recent, cryptoVars, appVars, txVars>>

\* a second passes
Tick ==
  /\ now < MaxTime
  /\ now' = now + 1
  /\ UNCHANGED <<rows, fts, seq, recent, pre, last, cryptoVars, appVars, txVars>>

DbNext == DbUpsert \/ DbGet \/ DbFind \/ DbDelete \/ DbFirst \/ Tick

SpecDb == DbInit /\ [][DbNext]_vars

(***************************************************************************)
(* Concurrent callers of app/db.py.  Every call opens its own connection   *)
(* (with sqlite3.connect(db_path) as conn).  A writing statement takes the *)
(* write lock of the file, changes the connection's own pages, runs the    *)
(* triggers, and conn.commit() makes the pages the file and releases the   *)
(* lock.  A connection that finds the lock taken waits (busy handler) and  *)
(* gives up with "database is locked" when the timeout of connect passes.  *)
(***************************************************************************)
\* "a", "ab"
TxKeys == {<<97>>, <<97, 98>>}

\* the lists given to delete_secrets_by_keys: [], ["a"], ["a", "ab"]
TxKeyLists == {<<>>, <<<<97>>>>, <<<<97>>, <<97, 98>>>>}

\* "a*"
TxPatterns == {<<97, STAR>>}

\* the index entries the triggers keep for a table
Entries(rs) == {[rowid |-> r.id, key |-> r.key] : r \in rs}

\* key TEXT UNIQUE NOT NULL
Unique(rs) == \A r1, r2 \in rs : r1.key = r2.key => r1 = r2

\* a connection that sees the pages of the lock holder before the commit
VisibleUncommitted(c) ==
  IF lock # 0
  THEN [rows |-> conns[lock].wrows, fts |-> conns[lock].wfts, seq |-> conns[lock].wseq]
  ELSE [rows |-> rows, fts |-> fts, seq |-> seq]

\* what connection c reads: its own pages while it holds the write lock, the
\* committed file otherwise
Visible(c) ==
  IF lock = c
  THEN [rows |-> conns[c].wrows, fts |-> conns[c].wfts, seq |-> conns[c].wseq]
  ELSE [rows |-> rows, fts |-> fts, seq |-> seq]

\* a connection that never finds the file locked
BusyNever(c) == FALSE

\* SQLITE_BUSY: another connection holds the write lock
Busy(c) == lock \notin {0, c}

\* a caller enters add_or_update_secret and connects
TxCallUpsert(c) ==
  /\ conns[c].pc = "closed"
  /\ \E key \in TxKeys, value \in DbValues :
       conns' = [conns EXCEPT ![c] =
                   [Closed EXCEPT !.pc = "connected",
                                  !.call = Call("add_or_update_secret", key, value,
                                                <<>>, <<>>, None)]]
  /\ UNCHANGED <<lock, dbVars, cryptoVars, appVars>>

\* a caller enters delete_secrets_by_keys and connects; the empty list returns
\* 0 without a statement
TxCallDelete(c) ==
  /\ conns[c].pc = "closed"
  /\ \E keys \in TxKeyLists :
       conns' = [conns EXCEPT ![c] =
                   [Closed EXCEPT !.pc = IF Len(keys) = 0 THEN "returned"
                                         ELSE "connected",
                                  !.call = Call("delete_secrets_by_keys", <<>>, <<>>,
                                                keys, <<>>, 0)]]
  /\ UNCHANGED <<lock, dbVars, cryptoVars, appVars>>

\* cursor.execute of the writing statement: the row mutation, under the write
\* lock, in the pages of the connection.  A UNIQUE violation aborts the
\* statement with sqlite3.IntegrityError.
TxExecute(c) ==
  /\ conns[c].pc = "connected"
  /\ ~Busy(c)
  /\ LET cl == conns[c].call
         v == Visible(c)
         w == IF cl.op = "add_or_update_secret"
              THEN UpsertRows(v.rows, v.seq, now, cl.key, cl.value)
              ELSE DeleteRows(v.rows, cl.keys)
     IN IF Unique(w)
        THEN /\ conns' = [conns EXCEPT ![c].pc = "executed",
                                       ![c].wrows = w,
                                       ![c].wfts = v.fts,
                                       ![c].wseq = IF cl.op = "add_or_update_secret"
                                                   THEN v.seq + 1 ELSE v.seq,
                                       ![c].call.ret =
                                         IF cl.op = "add_or_update_secret" THEN None
                                         ELSE DeleteCount(v.rows, cl.keys)]
             /\ lock' = c
        ELSE /\ conns' = [conns EXCEPT ![c].pc = "returned",
                                       ![c].call.ret = <<"IntegrityError">>]
             /\ lock' = lock
  /\ seq < MaxSeq \/ conns[c].call.op # "add_or_update_secret"
  /\ UNCHANGED <<dbVars, cryptoVars, appVars>>

\* the triggers secrets_ai / secrets_au / secrets_ad of the statement
TxTriggers(c) ==
  /\ conns[c].pc = "executed"
  /\ LET cl == conns[c].call IN
     conns' = [conns EXCEPT ![c].pc = "triggered",
                            ![c].wfts =
                              IF cl.op = "add_or_update_secret"
                              THEN UpsertFts(fts, rows, seq, cl.key)
                              ELSE DeleteFts(fts, rows \ conns[c].wrows)]
  /\ UNCHANGED <<lock, dbVars, cryptoVars, appVars>>

\* conn.commit(): the pages of the connection become the file; the call returns
TxCommit(c) ==
  /\ conns[c].pc = "triggered"
  /\ rows' = conns[c].wrows
  /\ fts' = conns[c].wfts
  /\ seq' = conns[c].wseq
  /\ lock' = 0
  /\ pre' = rows
  /\ last' = conns[c].call
  /\ recent' = IF conns[c].call.op = "add_or_update_secret"
               THEN Recent(conns[c].call.key, conns[c].call.value)
               ELSE recent
  /\ conns' = [conns EXCEPT ![c].pc = "returned"]
  /\ UNCHANGED <<now, cryptoVars, appVars>>

\* the busy timeout passes while another connection holds the lock:
\* sqlite3.OperationalError, logged and raised again
TxTimeout(c) ==
  /\ conns[c].pc = "connected"
  /\ Busy(c)
  /\ conns' = [conns EXCEPT ![c].pc = "returned",
                            ![c].call.ret = <<"OperationalError">>]
  /\ UNCHANGED <<lock, dbVars, cryptoVars, appVars>>

\* find_secrets_by_like_pattern by a caller of its own: one SELECT on what the
\* connection can read
TxFind(c) ==
  /\ conns[c].pc = "closed"
  /\ \E pattern \in TxPatterns :
       LET cl == Call("find_secrets_by_like_pattern", <<>>, <<>>, <<>>, pattern,
                      find_secrets_by_like_pattern(Visible(c).rows, pattern))
       IN /\ conns' = [conns EXCEPT ![c] = [Closed EXCEPT !.pc = "returned",
                                                          !.call = cl,
                                                          !.wrows = Visible(c).rows,
                                                          !.wfts = Visible(c).fts]]
          /\ last' = cl
  /\ pre' = rows
  /\ UNCHANGED <<lock, rows, fts, seq, now, recent, cryptoVars, appVars>>

\* the caller has its result; the connection is gone
TxClose(c) ==
  /\ conns[c].pc = "returned"
  /\ conns' = [conns EXCEPT ![c] = Closed]
  /\ UNCHANGED <<lock, dbVars, cryptoVars, appVars>>

TxNext ==
  \E c \in Conns :
    \/ TxCallUpsert(c)
    \/ TxCallDelete(c)
    \/ TxExecute(c)
    \/ TxTriggers(c)
    \/ TxCommit(c)
    \/ TxTimeout(c)
    \/ TxFind(c)
    \/ TxClose(c)

SpecTx == DbInit /\ [][TxNext]_vars

(***************************************************************************)
(* Loading the configuration: Settings() validates ENCRYPTION_KEY, and the *)
(* key it accepted is the one encrypt_data derives from.                   *)
(***************************************************************************)
\* get_settings(): Settings() with the value of the environment
get_settings ==
  /\ last.op = "idle"
  /\ settings = <<>>
  /\ \E value \in EnvKeys :
       /\ last' = Call("get_settings", value, <<>>, <<>>, <<>>,
                       validate_encryption_key(value))
       /\ settings' = IF validate_encryption_key(value) = "ok" THEN value ELSE <<>>
  /\ UNCHANGED <<rows, fts, seq, now, recent, pre, phase, handler, cryptoVars, txVars>>

\* encrypt_data under the settings: bytes.fromhex and derive_key on the key
ConfigEncrypt ==
  /\ settings # <<>>
  /\ cpc = "idle"
  /\ \E p \in Plaintexts, salt \in urandom(SALT_LENGTH),
        nonce \in urandom(GCM_NONCE_LENGTH) :
       /\ plain' = p
       /\ origBlob' = encrypt_data(p, settings, salt, nonce)
       /\ blob' = origBlob'
  /\ encKey' = settings
  /\ cpc' = "encrypted"
  /\ UNCHANGED <<tseg, decKey, result, dbVars, appVars, txVars>>

ConfigNext == get_settings \/ ConfigEncrypt

SpecConfig == DbInit /\ [][ConfigNext]_vars

(***************************************************************************)
(* The application: one process at a time on one database file.  The file  *)
(* is created empty and outlives the processes; a process is started with  *)
(* the ENCRYPTION_KEY of its environment.                                  *)
(***************************************************************************)
Init == CryptoIdle /\ DbEmpty /\ AppIdle

\* a lifespan that yields whatever the key check did
lifespan_yielding(outcome) == "serving"

\* where lifespan leaves the process: it yields after check_encryption_key
\* returned, SystemExit ends the process, any other exception is logged and
\* raised again
lifespan(outcome) ==
  IF outcome = "passed" THEN "serving"
  ELSE IF outcome = "exit" THEN "exited"
  ELSE "failed"

\* lifespan: init_db (which leaves an existing table as it is), then
\* check_encryption_key on the value get_first_secret_value returns
Startup ==
  /\ last.op = "idle"
  /\ phase # "serving"
  /\ \E k \in KeyHexes, first_value \in get_first_secret_value(rows) :
       LET outcome == check_encryption_key(first_value, k) IN
       /\ validate_encryption_key(k) = "ok"
       /\ settings' = k
       /\ phase' = lifespan(outcome)
       /\ last' = Call("check_encryption_key", k, first_value, <<>>, <<>>, outcome)
  /\ pre' = rows
  /\ UNCHANGED <<rows, fts, seq, now, recent, handler, cryptoVars, txVars>>

\* the process is stopped
Shutdown ==
  /\ last.op = "idle"
  /\ phase = "serving"
  /\ phase' = "down"
  /\ settings' = <<>>
  /\ UNCHANGED <<handler, dbVars, cryptoVars, txVars>>

\* a request to a route of the router arrives: its dependency verify_token runs
\* first; the handler runs only when the dependency returned
authenticate ==
  /\ last.op = "idle"
  /\ phase = "serving"
  /\ \E authorization \in Headers :
       last' = Call("verify_token", authorization, <<>>, <<>>, <<>>,
                    verify_token(authorization, AUTH_TOKEN))
  /\ pre' = rows
  /\ UNCHANGED <<rows, fts, seq, now, recent, appVars, cryptoVars, txVars>>

\* the dependency of the request returned: its handler is called
Authorized == last.op = "verify_token" /\ last.ret = "pass"

\* the call has returned to its caller: its frame is gone
Return ==
  /\ last.op # "idle"
  /\ ~Authorized
  /\ last' = Idle
  /\ pre' = {}
  /\ UNCHANGED <<rows, fts, seq, now, recent, appVars, txVars, cryptoVars>>

\* POST /api/v1/secrets/single
create_or_update_secret ==
  /\ Authorized
  /\ phase = "serving"
  /\ seq < MaxSeq
  /\ \E key \in AppKeys, value \in AppValues, draw \in AppDraws :
       LET encrypted_value == encrypt_data(value, settings, draw[1], draw[2]) IN
       /\ rows' = UpsertRows(rows, seq, now, key, encrypted_value)
       /\ fts' = UpsertFts(fts, rows, seq, key)
       /\ last' = Call("create_or_update_secret", key, value, <<>>, <<>>,
                       Response(200, <<<<key, value>>>>))
  /\ seq' = seq + 1
  /\ pre' = rows
  /\ UNCHANGED <<now, recent, appVars, txVars, cryptoVars>>

\* the database after the loop of create_or_update_secrets_bulk has handled
\* the secrets of bulk_data from position i on, draws[i] being the os.urandom
\* draws of the i-th encrypt_data
RECURSIVE BulkLoop(_, _, _, _, _)
BulkLoop(d, bulk_data, draws, encryption_key, i) ==
  IF i > Len(bulk_data) THEN d
  ELSE LET key == bulk_data[i][1]
           encrypted_value == encrypt_data(bulk_data[i][2], encryption_key,
                                           draws[i][1], draws[i][2])
       IN BulkLoop([rows |-> UpsertRows(d.rows, d.seq, now, key, encrypted_value),
                    fts |-> UpsertFts(d.fts, d.rows, d.seq, key),
                    seq |-> d.seq + 1],
                   bulk_data, draws, encryption_key, i + 1)

\* POST /api/v1/secrets/bulk
create_or_update_secrets_bulk ==
  /\ Authorized
  /\ phase = "serving"
  /\ \E bulk_data \in BulkBodies :
       /\ seq + Len(bulk_data) <= MaxSeq
       /\ \E draws \in [1..Len(bulk_data) -> AppDraws] :
            LET d == BulkLoop([rows |-> rows, fts |-> fts, seq |-> seq],
                              bulk_data, draws, settings, 1)
            IN /\ rows' = d.rows
               /\ fts' = d.fts
               /\ seq' = d.seq
       /\ last' = Call("create_or_update_secrets_bulk", <<>>, <<>>, bulk_data, <<>>,
                       Response(200, bulk_data))
  /\ pre' = rows
  /\ UNCHANGED <<now, recent, appVars, txVars, cryptoVars>>

\* GET /api/v1/secrets?keys=..
get_secrets ==
  /\ Authorized
  /\ phase = "serving"
  /\ \E keys \in Queries :
       last' = Call("get_secrets", <<>>, <<>>, keys, <<>>,
                    decrypted_secrets(found_for_get(rows, keys), settings))
  /\ pre' = rows
  /\ UNCHANGED <<rows, fts, seq, now, recent, appVars, txVars, cryptoVars>>

\* DELETE /api/v1/secrets?keys=..
delete_secrets ==
  /\ Authorized
  /\ phase = "serving"
  /\ \E keys \in Queries :
       LET found == found_for_delete(rows, keys) IN
       IF Len(found) = 0
       THEN /\ last' = Call("delete_secrets", <<>>, <<>>, keys, <<>>,
                            Response(200, <<>>))
            /\ UNCHANGED <<rows, fts>>
       ELSE /\ rows' = DeleteRows(rows, keys_to_delete(found))
            /\ fts' = DeleteFts(fts, rows \ DeleteRows(rows, keys_to_delete(found)))
            /\ last' = Call("delete_secrets", <<>>, <<>>, keys, <<>>,
                            decrypted_secrets(found, settings))
  /\ pre' = rows
  /\ UNCHANGED <<seq, now, recent, appVars, txVars, cryptoVars>>

Next ==
  \/ Startup
  \/ Shutdown
  \/ authenticate
  \/ create_or_update_secret
  \/ create_or_update_secrets_bulk
  \/ get_secrets
  \/ delete_secrets
  \/ Return

Spec == Init /\ [][Next]_vars

(***************************************************************************)
(* Two processes of the application on one database file.  The second one  *)
(* was started, with its own ENCRYPTION_KEY, while the table was empty, so *)
(* that its check_encryption_key had nothing to sample; it handles POST    *)
(* /secrets/single requests between the requests of the first.             *)
(***************************************************************************)
\* ENCRYPTION_KEY of the second process
OtherKey == KeyOther

\* create_or_update_secret of the second process
other_create_or_update_secret ==
  /\ last.op = "idle"
  /\ seq < MaxSeq
  /\ \E key \in AppKeys, draw \in AppDraws :
       LET encrypted_value == encrypt_data(<<65>>, OtherKey, draw[1], draw[2]) IN
       /\ rows' = UpsertRows(rows, seq, now, key, encrypted_value)
       /\ fts' = UpsertFts(fts, rows, seq, key)
  /\ seq' = seq + 1
  /\ pre' = rows
  /\ UNCHANGED <<last, now, recent, appVars, txVars, cryptoVars>>

NextShared == Next \/ other_create_or_update_secret

SpecShared == Init /\ [][NextShared]_vars

(***************************************************************************)
(* Two requests in one process.  The handlers are plain functions, which   *)
(* the framework runs in worker threads: while one thread is inside        *)
(* delete_secrets another one can run create_or_update_secret.  Every call *)
(* of app/db.py is one transaction on a connection of its own, so the      *)
(* threads interleave between the calls.                                   *)
(***************************************************************************)
\* the process serves, started on an empty file
RaceInit ==
  /\ CryptoIdle
  /\ DbEmpty
  /\ phase = "serving"
  /\ settings = KeyLower
  /\ handler = NoFrame

\* create_or_update_secret in the other thread
RaceUpsert ==
  /\ seq < MaxSeq
  /\ \E key \in AppKeys, value \in AppValues, draw \in AppDraws :
       LET encrypted_value == encrypt_data(value, settings, draw[1], draw[2]) IN
       /\ rows' = UpsertRows(rows, seq, now, key, encrypted_value)
       /\ fts' = UpsertFts(fts, rows, seq, key)
  /\ seq' = seq + 1
  /\ pre' = rows
  /\ UNCHANGED <<last, now, recent, appVars, txVars, cryptoVars>>

\* delete_secrets is entered: key_list, exact_keys, like_patterns
RaceParse ==
  /\ handler.pc = "none"
  /\ \E keys \in Queries :
       handler' = [NoFrame EXCEPT !.pc = "parsed", !.keys = keys]
  /\ UNCHANGED <<phase, settings, dbVars, txVars, cryptoVars>>

\* if exact_keys: found_secrets.extend(db.get_secrets_by_keys(..))
RaceExact ==
  /\ handler.pc = "parsed"
  /\ handler' = [handler EXCEPT
       !.pc = "looking",
       !.pattern = 1,
       !.found_secrets =
         IF Len(exact_keys(handler.keys)) > 0
         THEN get_secrets_by_keys(rows, exact_keys(handler.keys)) ELSE <<>>]
  /\ UNCHANGED <<phase, settings, dbVars, txVars, cryptoVars>>

\* one round of the loop over like_patterns
RacePattern ==
  /\ handler.pc = "looking"
  /\ handler.pattern <= Len(like_patterns(handler.keys))
  /\ handler' = [handler EXCEPT
       !.pattern = @ + 1,
       !.found_secrets =
         AppendNew(@, find_secrets_by_like_pattern(
                        rows, like_patterns(handler.keys)[handler.pattern]), 1)]
  /\ UNCHANGED <<phase, settings, dbVars, txVars, cryptoVars>>

\* if not found_secrets: return []; else db.delete_secrets_by_keys(..)
RaceDelete ==
  /\ handler.pc = "looking"
  /\ handler.pattern > Len(like_patterns(handler.keys))
  /\ IF Len(handler.found_secrets) = 0
     THEN /\ handler' = [handler EXCEPT !.pc = "returned",
                                        !.ret = Response(200, <<>>)]
          /\ UNCHANGED <<rows, fts, pre>>
     ELSE LET left == DeleteRows(rows, keys_to_delete(handler.found_secrets)) IN
          /\ rows' = left
          /\ fts' = DeleteFts(fts, rows \ left)
          /\ pre' = rows
          /\ handler' = [handler EXCEPT !.pc = "deleted", !.removed = rows \ left]
  /\ UNCHANGED <<phase, settings, seq, now, recent, last, txVars, cryptoVars>>

\* the values are decrypted and the list is returned
RaceRespond ==
  /\ handler.pc = "deleted"
  /\ handler' = [handler EXCEPT
       !.pc = "returned",
       !.ret = decrypted_secrets(handler.found_secrets, settings)]
  /\ UNCHANGED <<phase, settings, dbVars, txVars, cryptoVars>>

\* the response is sent; the thread is free for the next request
RaceDone ==
  /\ handler.pc = "returned"
  /\ handler' = NoFrame
  /\ UNCHANGED <<phase, settings, dbVars, txVars, cryptoVars>>

RaceNext ==
  \/ RaceUpsert
  \/ RaceParse
  \/ RaceExact
  \/ RacePattern
  \/ RaceDelete
  \/ RaceRespond
  \/ RaceDone

SpecRace == RaceInit /\ [][RaceNext]_vars

(***************************************************************************)
(* Claims about app/crypto.py, checked under SpecCrypto.                   *)
(***************************************************************************)
MasterKey(h) == bytes_fromhex(h).bytes

\* the four decoded fields of a blob string
Fields(b) == [n \in 1..Len(Split(b)) |-> urlsafe_b64decode(Split(b)[n])]

Decodable(b) ==
  /\ Len(Split(b)) = 4
  /\ \A n \in 1..4 : Fields(b)[n].ok

\* C1: round trip.  Decrypting what encrypt_data returned, untouched and with
\* the same master key, returns the plaintext, whatever salt and nonce were
\* drawn.
ThC1_RoundTrip ==
  (cpc = "decrypted" /\ tseg = 0 /\ decKey = encKey) => result = Ok(plain)

WitC1_RoundTrip ==
  /\ cpc = "decrypted"
  /\ tseg = 0
  /\ decKey = encKey
  /\ \E i \in 1..Len(plain) : plain[i] > 127
  /\ result = Ok(plain)

\* C2: wrong-key rejection.  Decrypting an untouched blob with a master key
\* other than the one it was encrypted with fails with the authentication
\* cause and returns no plaintext.  A master key is the 32 bytes the hex string
\* denotes: "aa..aa" and "AA..AA" are the same key.
ThC2_WrongKey ==
  (cpc = "decrypted" /\ tseg = 0 /\ MasterKey(decKey) # MasterKey(encKey))
    => result = DecryptionError("authentication")

WitC2_WrongKey ==
  /\ cpc = "decrypted"
  /\ tseg = 0
  /\ MasterKey(decKey) # MasterKey(encKey)
  /\ Len(plain) > 0
  /\ result.kind = "DecryptionError"

Pairs(rs) == {<<r.key, r.value>> : r \in rs}

\* C4: upsert identity.  After any sequence of upserts and deletes the table
\* holds at most one row per exact key, the value of a row is the value of the
\* most recent upsert of its key, and an upsert leaves the rows of every other
\* key (a key differing only in letter case included) as they were.
ThC4_UpsertIdentity ==
  /\ \A r1, r2 \in rows : r1.key = r2.key => r1 = r2
  /\ \A r \in rows : r.key \in DOMAIN recent /\ r.value = recent[r.key]
  /\ last.op = "add_or_update_secret" =>
       /\ {r \in rows : r.key # last.key} = {r \in pre : r.key # last.key}
       /\ Cardinality({r \in rows : r.key = last.key}) = 1
       /\ \A r \in rows : r.key = last.key => r.value = last.value

WitC4_UpsertIdentity ==
  /\ last.op = "add_or_update_secret"
  /\ \E r \in pre : r.key = last.key /\ r.value # last.value
  /\ \E r \in rows : r.key = last.key /\ r.value = last.value

\* the pattern language of the claim: * matches any run of characters, every
\* other character only itself.  Glob(p, i, s, j): p from i matches s from j.
RECURSIVE Glob(_, _, _, _)
Glob(p, i, s, j) ==
  IF i > Len(p) THEN j > Len(s)
  ELSE IF p[i] = STAR THEN \E k \in j..(Len(s) + 1) : Glob(p, i + 1, s, k)
  ELSE j <= Len(s) /\ p[i] = s[j] /\ Glob(p, i + 1, s, j + 1)

\* C5: pattern lookup.  find_secrets_by_like_pattern returns exactly the rows
\* whose key matches the pattern with * as the only wildcard, and for a
\* pattern without * exactly what get_secrets_by_keys returns for that key.
CexC5_PatternLookup ==
  last.op = "find_secrets_by_like_pattern" =>
    /\ Range(last.ret) = Pairs({r \in rows : Glob(last.pattern, 1, r.key, 1)})
    /\ Len(last.ret) = Cardinality(Range(last.ret))
    /\ STAR \notin Range(last.pattern)
         => last.ret = get_secrets_by_keys(rows, <<last.pattern>>)

\* C6: exact lookup.  get_secrets_by_keys returns exactly the rows whose key
\* is one of the keys given, each once, omits the keys not stored, and leaves
\* the table as it was.
ThC6_ExactLookup ==
  last.op = "get_secrets_by_keys" =>
    /\ Range(last.ret) =
         Pairs({r \in rows : \E i \in 1..Len(last.keys) : r.key = last.keys[i]})
    /\ Len(last.ret) = Cardinality(Range(last.ret))
    /\ rows = pre

WitC6_ExactLookup ==
  /\ last.op = "get_secrets_by_keys"
  /\ Len(last.keys) = 2
  /\ \E r \in rows : r.key = last.keys[1]
  /\ \A r \in rows : r.key # last.keys[2]
  /\ Len(last.ret) = 1
  /\ Cardinality(rows) = 2

\* C7: delete.  delete_secrets_by_keys removes exactly the rows whose key is
\* in the list, returns the number of rows removed (0 for absent keys and for
\* the empty list, a key listed twice counted once) and leaves every other
\* row as it was.
ThC7_Delete ==
  last.op = "delete_secrets_by_keys" =>
    /\ rows = {r \in pre : \A i \in 1..Len(last.keys) : r.key # last.keys[i]}
    /\ last.ret = Cardinality(pre) - Cardinality(rows)
    /\ rows \subseteq pre

WitC7_Delete ==
  /\ last.op = "delete_secrets_by_keys"
  /\ Len(last.keys) = 2
  /\ last.keys[1] = last.keys[2]
  /\ last.ret = 1
  /\ Cardinality(rows) = 1

(***************************************************************************)
(* Claims about app/api/routes.py and app/startup.py, checked under Spec.  *)
(***************************************************************************)
\* the entries of the list keys that select the stored key k
Selecting(keys, k) ==
  {n \in 1..Len(key_list(keys)) : Glob(key_list(keys)[n], 1, k, 1)}

ResponseKeys(body) == {body[i][1] : i \in 1..Len(body)}

\* C8: dedup on delete.  delete_secrets answers 200 with every stored key that
\* an entry of the list selects, each key once however many entries select it;
\* the keys of the response are gone from the table and the number of rows
\* removed is the number of keys in the response.
ThC8_DeleteDedup ==
  last.op = "delete_secrets" =>
    LET body == last.ret.body IN
    /\ last.ret.status = 200
    /\ Cardinality(ResponseKeys(body)) = Len(body)
    /\ Cardinality(pre \ rows) = Len(body)
    /\ rows \subseteq pre
    /\ \A r \in pre : Selecting(last.keys, r.key) # {} => r.key \in ResponseKeys(body)
    /\ \A r \in pre : r.key \in ResponseKeys(body) <=> r \notin rows

WitC8_DeleteDedup ==
  /\ last.op = "delete_secrets"
  /\ Cardinality(pre) = 2
  /\ \E r \in pre : Cardinality(Selecting(last.keys, r.key)) = 2
  /\ Len(last.ret.body) = 2
  /\ rows = {}

\* C9: dedup on read.  No key appears twice in the response of get_secrets.
CexC9_ReadDedup ==
  last.op = "get_secrets" =>
    Cardinality(ResponseKeys(last.ret.body)) = Len(last.ret.body)

\* the table holds one record and its value was made with the key k1
OneRecordUnder(k1) ==
  /\ Cardinality(rows) = 1
  /\ \E r \in rows, v \in AppValues, d \in AppDraws :
       r.value = encrypt_data(v, k1, d[1], d[2])

\* C10: key integrity check.  On an empty table check_encryption_key passes
\* whatever the key; on a table of one record encrypted with k1 it passes when
\* the process has the 32 key bytes of k1 and ends the process otherwise.
ThC10_KeyCheck ==
  last.op = "check_encryption_key" =>
    /\ rows = {} => (last.ret = "passed" /\ phase = "serving")
    /\ \A k1 \in KeyHexes :
         OneRecordUnder(k1) =>
           IF MasterKey(settings) = MasterKey(k1)
           THEN last.ret = "passed" /\ phase = "serving"
           ELSE last.ret = "exit" /\ phase = "exited"

WitC10_KeyCheck ==
  /\ last.op = "check_encryption_key"
  /\ \E k1 \in KeyHexes :
       OneRecordUnder(k1) /\ MasterKey(settings) # MasterKey(k1)
  /\ phase = "exited"

HandlerOps ==
  {"create_or_update_secret", "create_or_update_secrets_bulk", "get_secrets",
   "delete_secrets"}

\* C11: startup gate.  A process starts serving only in the step in which
\* check_encryption_key returned normally (after init_db); a handler runs only
\* in a serving process; a process whose sampled value does not decrypt under
\* its key is not serving; the table changes only under a serving process.
ThC11_StartupGate ==
  [][/\ (phase' = "serving" /\ phase # "serving")
          => (last'.op = "check_encryption_key" /\ last'.ret = "passed")
     /\ (last'.op # last.op /\ last'.op \in HandlerOps) => (phase = "serving" /\ phase' = "serving")
     /\ (last'.op # last.op /\ last'.op = "check_encryption_key" /\ last'.value # None
           /\ decrypt_data(last'.value, last'.key).kind # "ok")
          => phase' \in {"exited", "failed"}
     /\ phase # "serving" => (rows' = rows /\ fts' = fts)]_vars

WitC11_StartupGate ==
  /\ phase = "exited"
  /\ last.op = "idle"
  /\ rows # {}

(***************************************************************************)
(* Claims about concurrent callers of app/db.py, checked under SpecTx.     *)
(***************************************************************************)
\* C12: index consistency.  The entries of secrets_fts are the (id, key) pairs
\* of the rows of secrets in the committed file, in what every connection can
\* read outside its own running statement, and in what every pattern search
\* read, also while another connection is inside an upsert or a delete.
ThC12_IndexConsistency ==
  /\ fts = Entries(rows)
  /\ \A c \in Conns :
       /\ conns[c].pc # "executed" => Visible(c).fts = Entries(Visible(c).rows)
       /\ conns[c].call.op = "find_secrets_by_like_pattern"
            => conns[c].wfts = Entries(conns[c].wrows)

WitC12_IndexConsistency ==
  \E c, d \in Conns :
    /\ conns[c].pc = "executed"
    /\ conns[c].wfts # Entries(conns[c].wrows)
    /\ conns[d].pc = "returned"
    /\ conns[d].call.op = "find_secrets_by_like_pattern"
    /\ rows # {}

\* the connections inside a write transaction
Writing == {c \in Conns : conns[c].pc \in {"executed", "triggered"}}

\* C13: concurrent upserts on one key.  At most one call is inside its write
\* transaction at a time, no call ends with a UNIQUE conflict, and when two
\* calls on the same key have both returned the table holds one row for the
\* key, with the value of the call that committed last.
ThC13_SameKeyUpserts ==
  /\ Cardinality(Writing) <= 1
  /\ \A c \in Conns :
       conns[c].call.op = "add_or_update_secret"
         => conns[c].call.ret \in {None, <<"OperationalError">>}
  /\ \A c, d \in Conns :
       (/\ c # d
        /\ conns[c].pc = "returned" /\ conns[d].pc = "returned"
        /\ conns[c].call.op = "add_or_update_secret"
        /\ conns[d].call.op = "add_or_update_secret"
        /\ conns[c].call.key = conns[d].call.key)
       => /\ last \in {conns[c].call, conns[d].call}
          /\ last.ret = None
          /\ {r.value : r \in {x \in rows : x.key = last.key}} = {last.value}
          /\ Cardinality({x \in rows : x.key = last.key}) = 1

WitC13_SameKeyUpserts ==
  /\ conns[1].pc = "returned" /\ conns[2].pc = "returned"
  /\ conns[1].call.op = "add_or_update_secret"
  /\ conns[2].call.op = "add_or_update_secret"
  /\ conns[1].call.key = conns[2].call.key
  /\ conns[1].call.value # conns[2].call.value
  /\ conns[1].call.ret = None /\ conns[2].call.ret = None
  /\ last = conns[2].call
  /\ \E r \in rows : r.key = last.key /\ r.value = last.value /\ r.id = 1

(***************************************************************************)
(* Claims about the failures of decrypt_data, checked under SpecCrypto.    *)
(***************************************************************************)
Decrypted == cpc \in {"decrypted", "answered"}

\* C14: single error category.  Whatever string decrypt_data is given, with a
\* valid master key, it returns a plaintext or raises DecryptionError.
CexC14_SingleCategory ==
  Decrypted => result.kind \in {"ok", "DecryptionError"}

\* C15: format validation.  A string whose split on "." does not give four
\* segments fails with the format cause, whatever the segments and the key.
ThC15_FormatValidation ==
  (Decrypted /\ Len(Split(blob)) # 4) => result = DecryptionError("format")

WitC15_FormatValidation ==
  /\ cpc = "answered"
  /\ Len(Split(blob)) = 3
  /\ decKey = encKey
  /\ result = DecryptionError("format")

\* base64 in the URL-safe alphabet: groups of four characters of the
\* alphabet, the last group padded with one or two "="
ValidBase64(seg) ==
  /\ Len(seg) % 4 = 0
  /\ \A i \in 1..Len(seg) :
       \/ B64Val(seg[i]) >= 0 /\ seg[i] \notin {43, 47}
       \/ seg[i] = 61 /\ i >= Len(seg) - 1 /\ (i = Len(seg) \/ seg[Len(seg)] = 61)

\* C16: decode validation.  A four-segment string with a segment that is not
\* valid base64 fails with the decode cause.
CexC16_DecodeValidation ==
  (/\ Decrypted
   /\ Len(Split(blob)) = 4
   /\ \E n \in 1..4 : ~ValidBase64(Split(blob)[n]))
  => result = DecryptionError("decode")

\* C17: only the authentication failure is fatal in the key check.
\* check_encryption_key ends the process only when decrypt_data fails on the
\* sampled value with the authentication cause.
CexC17_OnlyAuthFatal ==
  (last.op = "check_encryption_key" /\ last.ret = "exit")
    => decrypt_data(last.value, last.key).cause = "authentication"

Presents(authorization, auth_token) ==
  /\ authorization # NoHeader
  /\ Lower(Scheme(authorization)) = BEARER
  /\ Credentials(authorization) = auth_token

\* C19: authentication gate.  A request whose header does not present the
\* configured bearer token is answered 401 by the dependency, the table as it
\* was.
CexC19_AuthGate ==
  (last.op = "verify_token" /\ ~Presents(last.key, AUTH_TOKEN))
    => (last.ret = "401" /\ rows = pre)

(***************************************************************************)
(* Claims about app/config.py, checked under SpecConfig.                   *)
(***************************************************************************)
IsHexDigit(c) == HexVal(c) >= 0

\* C20: master-key shape check.  A value Settings accepted is 64 hex digits
\* that decode to 32 bytes, and every key encrypt_data derived from has 32
\* bytes.
CexC20_KeyShape ==
  /\ (last.op = "get_settings" /\ last.ret = "ok") =>
       /\ Len(last.key) = KEY_HEX_LENGTH
       /\ \A i \in 1..Len(last.key) : IsHexDigit(last.key[i])
       /\ Len(MasterKey(last.key)) = AES_KEY_LENGTH
  /\ (last.op = "get_settings" /\ cpc = "encrypted") =>
       Len(MasterKey(encKey)) = AES_KEY_LENGTH

(***************************************************************************)
(* Claims about the POST handlers, checked under Spec.                     *)
(***************************************************************************)
\* the (key, value) pairs of the request of the last POST
Posted ==
  IF last.op = "create_or_update_secret" THEN <<<<last.key, last.value>>>>
  ELSE last.keys

\* the row of key k holds a blob that is not the text and that decrypt_data
\* turns into the text under the key of the process
StoredEncrypted(k, text) ==
  /\ Cardinality({r \in rows : r.key = k}) = 1
  /\ \A r \in rows :
       r.key = k => (r.value # text /\ decrypt_data(r.value, settings) = Ok(text))

PostOps == {"create_or_update_secret", "create_or_update_secrets_bulk"}

\* C21 as stated: after a POST answered 200 the row of every posted key holds
\* the encryption of the posted value, and the response is the posted pairs.
CexC21_EncryptedAtRest ==
  (last.op \in PostOps /\ last.ret.status = 200) =>
    /\ last.ret.body = Posted
    /\ \A i \in 1..Len(Posted) : StoredEncrypted(Posted[i][1], Posted[i][2])

\* C21 as amended: after a POST answered 200 the response is the posted pairs
\* in request order, and the row of every posted key holds the encryption of
\* the value of the last pair of the request with that key.
ThC21_EncryptedAtRest ==
  (last.op \in PostOps /\ last.ret.status = 200) =>
    /\ last.ret.body = Posted
    /\ \A i \in 1..Len(Posted) :
         (\A j \in (i + 1)..Len(Posted) : Posted[j][1] # Posted[i][1])
           => StoredEncrypted(Posted[i][1], Posted[i][2])

WitC21_EncryptedAtRest ==
  /\ last.op = "create_or_update_secrets_bulk"
  /\ Len(Posted) = 2
  /\ Posted[1][1] # Posted[2][1]
  /\ Cardinality(rows) = 2
  /\ \A i \in 1..2 : StoredEncrypted(Posted[i][1], Posted[i][2])

(***************************************************************************)
(* Claim about two calls of encrypt_data, checked under SpecCrypto.        *)
(***************************************************************************)
\* the salt and the nonce a blob carries
Draws(b) == <<Fields(b)[1].bytes, Fields(b)[2].bytes>>

CexC25_KeyRoundTrip ==
  (last.op = "get_secrets" /\ last.keys \in {r.key : r \in rows}) =>
    /\ last.ret.status = 200
    /\ Len(last.ret.body) = 1
    /\ last.ret.body[1][1] = last.keys
    /\ \A r \in rows :
         r.key = last.keys =>
           Ok(last.ret.body[1][2]) = decrypt_data(r.value, settings)

(***************************************************************************)
(* Claims about stored values the process cannot decrypt, checked under    *)
(* SpecShared.                                                             *)
(***************************************************************************)
\* C23: when DELETE /secrets answers with an error, no row has been removed.
CexC23_DeleteAllOrNothing ==
  (last.op = "delete_secrets" /\ last.ret.status # 200) => rows = pre

\* C26: when check_encryption_key returned on a table that is not empty,
\* every value of the table decrypts under the configured key.
CexC26_CheckCoversStore ==
  (last.op = "check_encryption_key" /\ last.ret = "passed" /\ rows # {}) =>
    \A r \in rows : decrypt_data(r.value, settings).kind = "ok"

(***************************************************************************)
(* Claim about delete_secrets next to a concurrent upsert, checked under   *)
(* SpecRace.                                                               *)
(***************************************************************************)
\* the text the process reads from a stored value
Text(value) == decrypt_data(value, settings).text

\* C24: every row a run of delete_secrets removed is in its response with the
\* value the row held when it was removed, and no key is in the response
\* twice.
CexC24_DeleteReportsRemoved ==
  (handler.pc = "returned" /\ handler.ret.status = 200) =>
    LET body == handler.ret.body IN
    /\ \A r \in handler.removed :
         \E i \in 1..Len(body) : body[i] = <<r.key, Text(r.value)>>
    /\ \A i, j \in 1..Len(body) : body[i][1] = body[j][1] => i = j

====
